---- MODULE Spec2Model ----
(***************************************************************************)
(* TeleSocial proxy (src/main.py): one FastAPI endpoint, GET /download/,   *)
(* that forwards a target URL to a fixed upstream service and relays the   *)
(* upstream response as JSON or as a streamed download.                    *)
(*                                                                         *)
(* The handler is a coroutine on a single-threaded event loop; blocking    *)
(* calls handed to run_in_threadpool execute on worker threads.  Every     *)
(* request goes through the steps below; `loop` records which request's    *)
(* synchronous call, if any, is occupying the event-loop thread.           *)
(***************************************************************************)
EXTENDS Integers, Sequences, FiniteSets, TLC

VARIABLES
    scenario,           \* the family of inputs the environment draws from
    pc,                 \* per request: where its handling stands
    url,                \* per request: the `url` query parameter (None: absent)
    result_dict,        \* per request: what _fetch_from_tele_social_sync returned
    upstream_response,  \* per request: the requests.Response object (None: none)
    worker_result,      \* per request: what the body-reading helper returned
    out,                \* per request: the outward response
    close_calls,        \* per request: calls of upstream_response.close()
    upstream_calls,     \* per request: calls of requests.get
    relayed,            \* per request: body bytes yielded to the caller
    remaining,          \* per request: decoded body bytes not yet read
    loop                \* 0: event loop free; r: blocked in r's synchronous call

vars == <<scenario, pc, url, result_dict, upstream_response, worker_result,
          out, close_calls, upstream_calls, relayed, remaining, loop>>

----------------------------------------------------------------------------
(* Bounds of the model *)

\* longest upstream body, in tokens
MaxBody == 3
\* longest free part of a target URL, in characters
MaxStem == 2
\* concurrent requests in the concurrency scenario
LoopRequests == 2
\* chunk_size of iter_content, scaled down from 1024*64 bytes
ChunkSize == 2

----------------------------------------------------------------------------
(* Generic helpers *)

None == <<>>
Some(x) == <<x>>

RECURSIVE SeqsOfLen(_, _)
SeqsOfLen(S, n) ==
    IF n = 0 THEN {<<>>}
    ELSE {Append(s, c) : s \in SeqsOfLen(S, n - 1), c \in S}

SeqsUpTo(S, n) == UNION {SeqsOfLen(S, k) : k \in 0..n}

Min(a, b) == IF a < b THEN a ELSE b

\* s[i..] (Python s[i-1:])
From(s, i) == SubSeq(s, i, Len(s))

\* index of the first element of s that is in C, 0 if none (str.find)
Find(s, C) ==
    IF \E i \in 1..Len(s) : s[i] \in C
    THEN CHOOSE i \in 1..Len(s) : s[i] \in C /\ \A j \in 1..(i - 1) : s[j] \notin C
    ELSE 0

\* index of the last element of s that is in C, 0 if none (str.rfind)
RFind(s, C) ==
    IF \E i \in 1..Len(s) : s[i] \in C
    THEN CHOOSE i \in 1..Len(s) : s[i] \in C /\ \A j \in (i + 1)..Len(s) : s[j] \notin C
    ELSE 0

\* s.split(c, 1)[0]
BeforeFirst(s, c) ==
    IF Find(s, {c}) = 0 THEN s ELSE SubSeq(s, 1, Find(s, {c}) - 1)

RECURSIVE Filter(_, _)
Filter(s, C) ==
    IF s = <<>> THEN <<>>
    ELSE IF s[1] \in C THEN <<s[1]>> \o Filter(Tail(s), C)
    ELSE Filter(Tail(s), C)

----------------------------------------------------------------------------
(* Characters.  A string is a sequence of one-character strings; "U+00E9"  *)
(* stands for the letter e-acute (alphanumeric, in Latin-1) and "U+4E2D"   *)
(* for a CJK ideograph (alphanumeric, outside Latin-1).                    *)

AsciiLower ==
    {"a", "b", "d", "e", "f", "h", "i", "j", "l", "m", "n", "o", "p", "s", "w", "x"}
AsciiUpper == {"M", "P"}
AsciiDigit == {"4", "7"}
AsciiLetter == AsciiLower \cup AsciiUpper
NonAsciiAlnum == {"U+00E9", "U+4E2D"}
Whitespace == {" "}

\* str.isalnum holds of Unicode letters and digits, not only of ASCII ones
Alnum == AsciiLetter \cup AsciiDigit \cup NonAsciiAlnum

\* the characters [A-Za-z0-9._-]
SafeAscii == AsciiLetter \cup AsciiDigit \cup {".", "_", "-"}

\* str.encode("latin-1") succeeds on c
Latin1(c) == c # "U+4E2D"

\* str.lower on one character
lower_char(c) == CASE c = "M" -> "m" [] c = "P" -> "p" [] OTHER -> c

lower(s) == [i \in 1..Len(s) |-> lower_char(s[i])]

\* str.endswith
endswith(s, suffix) ==
    /\ Len(suffix) <= Len(s)
    /\ SubSeq(s, Len(s) - Len(suffix) + 1, Len(s)) = suffix

RECURSIVE lstrip(_)
lstrip(s) ==
    IF s # <<>> /\ s[1] \in Whitespace THEN lstrip(Tail(s)) ELSE s

RECURSIVE rstrip(_)
rstrip(s) ==
    IF s # <<>> /\ s[Len(s)] \in Whitespace
    THEN rstrip(SubSeq(s, 1, Len(s) - 1)) ELSE s

\* str.strip
strip(s) == rstrip(lstrip(s))

----------------------------------------------------------------------------
(* urllib.parse.urlparse(url).path, os.path.basename, mimetypes *)

SchemeChars == AsciiLetter \cup AsciiDigit \cup {"+", "-", "."}

\* urlsplit, first step: a leading "<scheme>:" is split off
after_scheme(u) ==
    LET i == Find(u, {":"})
    IN  IF /\ i > 1
           /\ u[1] \in AsciiLetter
           /\ \A j \in 1..(i - 1) : u[j] \in SchemeChars
        THEN From(u, i + 1)
        ELSE u

\* urlsplit, second step: "//<netloc>" up to the first of "/", "?", "#"
has_netloc(u) == Len(u) >= 2 /\ u[1] = "/" /\ u[2] = "/"

netloc_end(u) ==
    LET d == Find(From(u, 3), {"/", "?", "#"})
    IN  IF d = 0 THEN Len(u) + 1 ELSE d + 2

netloc_of(u) == IF has_netloc(u) THEN SubSeq(u, 3, netloc_end(u) - 1) ELSE <<>>

after_netloc(u) == IF has_netloc(u) THEN From(u, netloc_end(u)) ELSE u

\* urlsplit raises ValueError("Invalid IPv6 URL") on an unbalanced bracket
urlparse_raises(u) ==
    LET n == netloc_of(after_scheme(u))
    IN  (Find(n, {"["}) # 0) # (Find(n, {"]"}) # 0)

\* urlparse(u).path: what is left once fragment and query are split off
urlparse_path(u) ==
    BeforeFirst(BeforeFirst(after_netloc(after_scheme(u)), "#"), "?")

\* os.path.basename(p): what follows the last "/"
basename(p) == From(p, RFind(p, {"/"}) + 1)

\* Content-Type header values the upstream may send
ContentTypes ==
    {"application/json", "Application/JSON; charset=utf-8", "video/mp4",
     "text/plain; charset=utf-8"}

\* str.lower on a header value
lower_header(v) ==
    IF v = "Application/JSON; charset=utf-8" THEN "application/json; charset=utf-8"
    ELSE v

\* 'application/json' in v
contains_application_json(v) ==
    v \in {"application/json", "application/json; charset=utf-8"}

\* mimetypes.guess_extension(type): None for a type it does not know, and a
\* value that carries parameters is not a type it knows
guess_extension(type) ==
    CASE lower_header(type) = "video/mp4" -> Some(<<".", "m", "p", "4">>)
      [] lower_header(type) = "application/octet-stream" -> Some(<<".", "b", "i", "n">>)
      [] lower_header(type) = "application/json" -> Some(<<".", "j", "s", "o", "n">>)
      [] OTHER -> None

downloaded_file ==
    <<"d", "o", "w", "n", "l", "o", "a", "d", "e", "d", "_", "f", "i", "l", "e">>

\* the characters the filename filter keeps: c.isalnum() or c in ['.', '_', '-']
KeptChars == Alnum \cup {".", "_", "-"}

\* filename of the synthesized Content-Disposition: lines 119-130, with the
\* except branch of line 132 when urlparse raises; content_type is the value
\* copied to response_headers (None when the upstream sent none)
synth_filename(target_url, content_type) ==
    IF urlparse_raises(target_url) THEN downloaded_file
    ELSE
    LET path_basename == basename(urlparse_path(target_url))
        filename_stem == BeforeFirst(BeforeFirst(path_basename, "?"), "#")
        guessed_extension ==
            guess_extension(IF content_type = None THEN "application/octet-stream"
                            ELSE content_type[1])
        filename ==
            IF path_basename = <<>> THEN downloaded_file
            ELSE IF /\ guessed_extension # None
                    /\ ~endswith(lower(filename_stem), lower(guessed_extension[1]))
                 THEN filename_stem \o guessed_extension[1]
                 ELSE filename_stem
        sanitized == strip(Filter(filename, KeptChars))
    IN  IF sanitized = <<>> THEN downloaded_file ELSE sanitized

----------------------------------------------------------------------------
(* JSON.  A body is a sequence of tokens; a parsed value is <<"num", n>>,  *)
(* <<"nan">>, <<"arr", elements>>, <<"str", literal, argument>> or         *)
(* <<"obj", pairs>> with pairs a sequence of <<key, value>>.               *)

JsonTokens == {"[", "]", "1", "NaN", " "}

NoValue == [ok |-> FALSE, val |-> None, end |-> 0]

RECURSIVE skip_ws(_, _)
skip_ws(t, i) ==
    IF i <= Len(t) /\ t[i] = " " THEN skip_ws(t, i + 1) ELSE i

\* the decimal number written by the digits t[i..j-1], all of them "1"
RECURSIVE number_at(_, _, _)
number_at(t, i, j) ==
    IF j <= i THEN 0 ELSE 10 * number_at(t, i, j - 1) + 1

\* the end of the run of digits that starts at t[i]
RECURSIVE digits_end(_, _)
digits_end(t, i) ==
    IF i <= Len(t) /\ t[i] = "1" THEN digits_end(t, i + 1) ELSE i

\* json.scanner at position i of t: a number, the constant NaN (which
\* Python's decoder accepts), or an array
RECURSIVE scan_once(_, _)
scan_once(t, i) ==
    IF i > Len(t) THEN NoValue
    ELSE CASE t[i] = "1" ->
                [ok |-> TRUE, val |-> <<"num", number_at(t, i, digits_end(t, i))>>,
                 end |-> digits_end(t, i)]
           [] t[i] = "NaN" -> [ok |-> TRUE, val |-> <<"nan">>, end |-> i + 1]
           [] t[i] = "[" ->
                LET j == skip_ws(t, i + 1)
                IN  IF j <= Len(t) /\ t[j] = "]"
                    THEN [ok |-> TRUE, val |-> <<"arr", <<>>>>, end |-> j + 1]
                    ELSE LET e == scan_once(t, j)
                             k == skip_ws(t, e.end)
                         IN  IF e.ok /\ k <= Len(t) /\ t[k] = "]"
                             THEN [ok |-> TRUE, val |-> <<"arr", <<e.val>>>>,
                                   end |-> k + 1]
                             ELSE NoValue
           [] OTHER -> NoValue

\* json.loads(t): [ok, val]; not ok is JSONDecodeError
json_loads(t) ==
    LET v == scan_once(t, skip_ws(t, 1))
    IN  IF v.ok /\ skip_ws(t, v.end) = Len(t) + 1
        THEN [ok |-> TRUE, val |-> v.val]
        ELSE [ok |-> FALSE, val |-> None]

\* the value holds NaN somewhere
RECURSIVE has_nan(_)
has_nan(v) ==
    CASE v[1] = "nan" -> TRUE
      [] v[1] = "arr" -> \E i \in 1..Len(v[2]) : has_nan(v[2][i])
      [] v[1] = "obj" -> \E i \in 1..Len(v[2]) : has_nan(v[2][i][2])
      [] OTHER -> FALSE

\* json.dumps(v, allow_nan=False, separators=(",", ":")), as JSONResponse
\* renders its content when it is constructed; a string renders as one
\* token.  Defined on values without NaN.
Digits == <<"0", "1", "2", "3", "4", "5", "6", "7", "8", "9">>

\* str(n) for n >= 0, a digit a token
RECURSIVE decimal(_)
decimal(n) ==
    IF n < 10 THEN <<Digits[n + 1]>>
    ELSE decimal(n \div 10) \o <<Digits[(n % 10) + 1]>>

RECURSIVE dumps(_)
RECURSIVE dumps_items(_, _)
RECURSIVE dumps_pairs(_, _)
dumps(v) ==
    CASE v[1] = "num" -> decimal(v[2])
      [] v[1] = "str" -> <<"<string>">>
      [] v[1] = "arr" -> <<"[">> \o dumps_items(v[2], 1) \o <<"]">>
      [] v[1] = "obj" -> <<"{">> \o dumps_pairs(v[2], 1) \o <<"}">>
dumps_items(xs, i) ==
    IF i > Len(xs) THEN <<>>
    ELSE (IF i > 1 THEN <<",">> ELSE <<>>) \o dumps(xs[i]) \o dumps_items(xs, i + 1)
dumps_pairs(ps, i) ==
    IF i > Len(ps) THEN <<>>
    ELSE (IF i > 1 THEN <<",">> ELSE <<>>) \o <<ps[i][1], ":">> \o dumps(ps[i][2])
         \o dumps_pairs(ps, i + 1)

Str(literal, argument) == <<"str", literal, argument>>
Obj(pairs) == <<"obj", pairs>>

\* the JSON value v is an object with a field named f
HasField(v, f) ==
    /\ v # None
    /\ v[1] = "obj"
    /\ \E i \in 1..Len(v[2]) : v[2][i][1] = f

----------------------------------------------------------------------------
(* Content-Encoding.  requests asks for gzip by default and decodes it in  *)
(* .text, .json() and iter_content; the encoded form wraps the entity in a *)
(* header and a trailer, so the two differ in length.                      *)

gzip_encode(body) == <<"gz-header">> \o body \o <<"gz-trailer">>

\* what the upstream sends for the entity body under a Content-Encoding
on_wire(content_encoding, body) ==
    IF content_encoding = "gzip" THEN gzip_encode(body) ELSE body

\* the entity body requests hands out for a response
decoded(resp) ==
    IF resp.content_encoding = "gzip"
    THEN SubSeq(resp.wire, 2, Len(resp.wire) - 1)
    ELSE resp.wire

----------------------------------------------------------------------------
(* Transport failures of requests.get, and the except clauses of           *)
(* _fetch_from_tele_social_sync                                            *)

ExceptionKinds ==
    {"Timeout", "ConnectTimeout", "ReadTimeout", "ConnectionError", "TooManyRedirects"}

\* the classes an exception of kind e is an instance of (requests.exceptions)
Bases(e) ==
    CASE e = "Timeout" -> {"Timeout", "RequestException"}
      [] e = "ConnectTimeout" ->
            {"ConnectTimeout", "ConnectionError", "Timeout", "RequestException"}
      [] e = "ReadTimeout" -> {"ReadTimeout", "Timeout", "RequestException"}
      [] e = "ConnectionError" -> {"ConnectionError", "RequestException"}
      [] e = "TooManyRedirects" -> {"TooManyRedirects", "RequestException"}

\* the except clauses of lines 37-42, in the order they are written
ExceptClauses_ConnectionFirst == <<"ConnectionError", "Timeout", "RequestException">>
ExceptClauses == <<"Timeout", "ConnectionError", "RequestException">>

\* the first clause that matches e
caught_as(e) ==
    ExceptClauses[CHOOSE i \in 1..Len(ExceptClauses) :
                    /\ ExceptClauses[i] \in Bases(e)
                    /\ \A j \in 1..(i - 1) : ExceptClauses[j] \notin Bases(e)]

\* detail of the result dict built by the clause that caught the exception
exception_detail(exception_type, target_url) ==
    CASE exception_type = "Timeout" ->
            Str("Request to upstream API timed out for URL: ", target_url)
      [] exception_type = "ConnectionError" ->
            Str("Could not connect to upstream API for URL: ", target_url)
      [] OTHER -> Str("Upstream API request error for ", target_url)

\* status of the HTTPException get_content_from_tele_social raises
transport_status(exception_type) ==
    CASE exception_type = "Timeout" -> 504
      [] exception_type = "ConnectionError" -> 503
      [] OTHER -> 500

----------------------------------------------------------------------------
(* Outward responses *)

NoResponse ==
    [status |-> 0, kind |-> "none", content |-> None, body |-> None,
     headers |-> None, end |-> "pending"]

\* JSONResponse(content=..., status_code=...); content holds no NaN
JSONResponse(content, status_code) ==
    [status |-> status_code, kind |-> "json", content |-> content,
     body |-> dumps(content), headers |-> None, end |-> "responded"]

\* FastAPI's handler of HTTPException: a JSON body {"detail": detail}
HTTPException(status_code, detail) ==
    JSONResponse(Obj(<< <<"detail", detail>> >>), status_code)

\* FastAPI's answer to a request that fails validation of a required parameter
RequestValidationError ==
    JSONResponse(Obj(<< <<"detail", Str("field required", <<"query", "url">>)>> >>), 422)

\* an exception no handler catches: Starlette answers 500 in plain text
InternalServerError ==
    [status |-> 500, kind |-> "plain", content |-> None,
     body |-> <<"Internal Server Error">>, headers |-> None, end |-> "responded"]

\* the object of line 93
upstream_error_wrapper_Renamed(error_body_text, response_status_code) ==
    Obj(<< <<"message", Str("Upstream API error", <<>>)>>,
           <<"details", Str("", error_body_text)>>,
           <<"upstream_status_code", <<"num", response_status_code>>>> >>)
upstream_error_wrapper(error_body_text, response_status_code) ==
    Obj(<< <<"error", Str("Upstream API error", <<>>)>>,
           <<"details", Str("", error_body_text)>>,
           <<"upstream_status_code", <<"num", response_status_code>>>> >>)

NoWorkerResult == [kind |-> "none", text |-> <<>>, data |-> None]

\* lines 86-98: read is what _read_text_and_close_sync gave
error_branch_response_NoWrapper(read, response_status_code) ==
    IF read.kind = "read_error" \/ ~json_loads(read.text).ok
       \/ has_nan(json_loads(read.text).val)
    THEN HTTPException(502,
            Str("Failed to read or process error response from upstream API: ", <<>>))
    ELSE JSONResponse(json_loads(read.text).val, response_status_code)
error_branch_response(read, response_status_code) ==
    IF read.kind = "read_error"
    THEN HTTPException(502,
            Str("Failed to read or process error response from upstream API: ",
                <<"read failed">>))
    ELSE LET error_json == json_loads(read.text)
         IN  IF error_json.ok
             THEN IF has_nan(error_json.val)
                  THEN HTTPException(502,
                         Str("Failed to read or process error response from upstream API: ",
                             <<"Out of range float values are not JSON compliant">>))
                  ELSE JSONResponse(error_json.val, response_status_code)
             ELSE JSONResponse(upstream_error_wrapper(read.text, response_status_code),
                               response_status_code)

\* lines 101-109: parsed is what _parse_json_and_close_sync gave or raised
json_branch_response_DecodeAs500(parsed, response_status_code) ==
    IF parsed.kind = "data" /\ ~has_nan(parsed.data)
    THEN JSONResponse(parsed.data, response_status_code)
    ELSE HTTPException(500,
            Str("Server error while processing upstream JSON response.", <<>>))
json_branch_response(parsed, response_status_code) ==
    CASE parsed.kind = "decode_error" ->
            HTTPException(502,
                Str("Upstream API returned malformed JSON despite declaring JSON content type.",
                    <<>>))
      [] parsed.kind = "read_error" ->
            HTTPException(500,
                Str("Server error while processing upstream JSON response.", <<>>))
      [] parsed.kind = "data" ->
            IF has_nan(parsed.data)
            THEN HTTPException(500,
                    Str("Server error while processing upstream JSON response.", <<>>))
            ELSE JSONResponse(parsed.data, response_status_code)

\* lines 85, 100, 110: the branch taken; content_type is the lowered header
\* value, "" when the upstream sent none
classification_StreamErrors(response_status_code, content_type) ==
    IF contains_application_json(content_type) THEN "json" ELSE "stream"
classification(response_status_code, content_type) ==
    IF response_status_code >= 400 THEN "error"
    ELSE IF contains_application_json(content_type) THEN "json"
    ELSE "stream"

\* lines 111-136: response_headers of the streamed download
stream_headers(target_url, resp) ==
    [content_type |-> resp.content_type,
     content_disposition |->
        IF resp.content_disposition # None
        THEN [source |-> "upstream", filename |-> resp.content_disposition[1]]
        ELSE [source |-> "synthesized",
              filename |-> synth_filename(target_url, resp.content_type)],
     content_length |-> resp.content_length]

\* Starlette encodes header values as latin-1 when the response is built
headers_encodable(h) ==
    \A i \in 1..Len(h.content_disposition.filename) :
        Latin1(h.content_disposition.filename[i])

\* lines 145-149
StreamingResponse(response_status_code, response_headers) ==
    [status |-> response_status_code, kind |-> "stream", content |-> None,
     body |-> None, headers |-> Some(response_headers), end |-> "pending"]

----------------------------------------------------------------------------
(* The inputs of a run.  The input space is explored in families, each     *)
(* varying one part of the input in full: "json" the transport failures    *)
(* and the bodies of the error and JSON branches, "stream" the streamed    *)
(* download, "name" the target URL of a download, "loop" several           *)
(* concurrent requests.                                                    *)

Scenarios == {"json", "stream", "name", "loop"}

Requests(s) == IF s = "loop" THEN 1..LoopRequests ELSE {1}

UrlChars == {"a", ".", "_", "/", "?", "#", ":", "[", "@", "U+00E9", "U+4E2D"}
UrlPrefixes == {<<>>, <<"h", ":", "/", "/">>}
UrlSuffixes == {<<>>, <<".", "m", "p", "4">>, <<".", "M", "P", "4">>}

\* the `url` query parameter: None when the query string has none
Urls(s) ==
    CASE s = "json" -> {None, Some(<<>>), Some(<<"/", "a">>)}
      [] s = "name" ->
            {Some(p \o m \o x) :
                p \in UrlPrefixes, m \in SeqsUpTo(UrlChars, MaxStem), x \in UrlSuffixes}
      [] OTHER -> {Some(<<"/", "a">>)}

Exceptions(s) == IF s = "json" THEN ExceptionKinds ELSE {"Timeout"}

StreamBytes == {"b0", "b1"}

\* entity bodies of the upstream
Bodies(s) ==
    CASE s = "json" -> SeqsUpTo(JsonTokens, MaxBody)
      [] s = "stream" -> SeqsUpTo(StreamBytes, MaxBody)
      [] OTHER -> {<<"1">>}

\* upstream responses: status, headers and the body as sent on the wire;
\* Content-Length, when sent, is the length of what is sent
Responses(s) ==
    {[status_code |-> st, content_type |-> ct, content_disposition |-> cd,
      content_encoding |-> enc,
      content_length |-> IF cl THEN Some(Len(on_wire(enc, b))) ELSE None,
      wire |-> on_wire(enc, b)] :
        st \in (IF s \in {"json", "loop"} THEN {200, 404} ELSE {200}),
        ct \in (CASE s = "json" -> {None} \cup {Some(c) : c \in ContentTypes}
                  [] s = "loop" -> {Some("application/json"), Some("video/mp4")}
                  [] OTHER -> {None, Some("video/mp4"), Some("text/plain; charset=utf-8")}),
        cd \in (IF s \in {"stream", "name"}
                THEN {None, Some(<<"x", ".", "b", "i", "n">>)} ELSE {None}),
        enc \in (IF s \in {"json", "stream"} THEN {"identity", "gzip"} ELSE {"identity"}),
        cl \in (IF s = "stream" THEN BOOLEAN ELSE {FALSE}),
        b \in Bodies(s)}

\* whether reading a body from the upstream may fail, and whether the
\* client may go away
ReadFailures(s) == s \in {"json", "stream"}
Disconnects(s) == s \in {"stream", "loop"}

----------------------------------------------------------------------------
(* The state machine *)

Init ==
    /\ scenario \in Scenarios
    /\ pc = [r \in Requests(scenario) |-> "received"]
    /\ url \in [Requests(scenario) -> Urls(scenario)]
    /\ result_dict = [r \in Requests(scenario) |-> None]
    /\ upstream_response = [r \in Requests(scenario) |-> None]
    /\ worker_result = [r \in Requests(scenario) |-> NoWorkerResult]
    /\ out = [r \in Requests(scenario) |-> NoResponse]
    /\ close_calls = [r \in Requests(scenario) |-> 0]
    /\ upstream_calls = [r \in Requests(scenario) |-> 0]
    /\ relayed = [r \in Requests(scenario) |-> <<>>]
    /\ remaining = [r \in Requests(scenario) |-> <<>>]
    /\ loop = 0

\* line 74: `url` is declared Query(...), a required parameter; FastAPI
\* validates it before the handler is called
QueryValidation(r) ==
    /\ pc[r] = "received"
    /\ loop = 0
    /\ IF url[r] = None
       THEN /\ out' = [out EXCEPT ![r] = RequestValidationError]
            /\ pc' = [pc EXCEPT ![r] = "done"]
       ELSE /\ pc' = [pc EXCEPT ![r] = "handler"]
            /\ out' = out
    /\ UNCHANGED <<scenario, url, result_dict, upstream_response, worker_result,
                   close_calls, upstream_calls, relayed, remaining, loop>>

\* lines 78-81 and 45-47: the check of `url`, then the fetch is handed to
\* the thread pool
download_content_via_proxy(r) ==
    /\ pc[r] = "handler"
    /\ loop = 0
    /\ IF url[r][1] = <<>>
       THEN /\ out' = [out EXCEPT ![r] =
                          HTTPException(400,
                              Str("The 'url' query parameter is required.", <<>>))]
            /\ pc' = [pc EXCEPT ![r] = "done"]
       ELSE /\ pc' = [pc EXCEPT ![r] = "fetching"]
            /\ out' = out
    /\ UNCHANGED <<scenario, url, result_dict, upstream_response, worker_result,
                   close_calls, upstream_calls, relayed, remaining, loop>>

\* lines 31-42, on a worker thread
fetch_from_tele_social_sync(r) ==
    /\ pc[r] = "fetching"
    /\ upstream_calls' = [upstream_calls EXCEPT ![r] = @ + 1]
    /\ \/ \E e \in Exceptions(scenario) :
            result_dict' = [result_dict EXCEPT ![r] =
                Some([type |-> "exception", raised |-> e,
                      exception_type |-> caught_as(e),
                      detail |-> exception_detail(caught_as(e), url[r][1]),
                      response_object |-> None])]
       \/ \E resp \in Responses(scenario) :
            result_dict' = [result_dict EXCEPT ![r] =
                Some([type |-> IF resp.status_code >= 400 THEN "error_upstream"
                               ELSE "success",
                      raised |-> "", exception_type |-> "", detail |-> None,
                      response_object |-> Some(resp)])]
    /\ pc' = [pc EXCEPT ![r] = "fetched"]
    /\ UNCHANGED <<scenario, url, upstream_response, worker_result, out,
                   close_calls, relayed, remaining, loop>>

\* lines 49-56
get_content_from_tele_social(r) ==
    /\ pc[r] = "fetched"
    /\ loop = 0
    /\ LET d == result_dict[r][1]
       IN  IF d.type = "exception"
           THEN /\ out' = [out EXCEPT ![r] =
                             HTTPException(transport_status(d.exception_type), d.detail)]
                /\ pc' = [pc EXCEPT ![r] = "done"]
                /\ upstream_response' = upstream_response
           ELSE /\ upstream_response' = [upstream_response EXCEPT ![r] = d.response_object]
                /\ pc' = [pc EXCEPT ![r] = "classify"]
                /\ out' = out
    /\ UNCHANGED <<scenario, url, result_dict, worker_result, close_calls,
                   upstream_calls, relayed, remaining, loop>>

\* lines 82-85, 100 and 110-149: the branch is chosen; the error and JSON
\* branches hand the body read to the thread pool, the stream branch builds
\* the headers and returns the StreamingResponse with its generator, which
\* has not run yet
Classify(r) ==
    /\ pc[r] = "classify"
    /\ loop = 0
    /\ LET resp == upstream_response[r][1]
           content_type == IF resp.content_type = None THEN ""
                           ELSE lower_header(resp.content_type[1])
           branch == classification(resp.status_code, content_type)
           response_headers == stream_headers(url[r][1], resp)
       IN  IF branch = "error"
           THEN /\ pc' = [pc EXCEPT ![r] = "error_body"]
                /\ UNCHANGED <<out, remaining>>
           ELSE IF branch = "json"
           THEN /\ pc' = [pc EXCEPT ![r] = "json_body"]
                /\ UNCHANGED <<out, remaining>>
           ELSE IF headers_encodable(response_headers)
           THEN /\ out' = [out EXCEPT ![r] =
                             StreamingResponse(resp.status_code, response_headers)]
                /\ remaining' = [remaining EXCEPT ![r] = decoded(resp)]
                /\ pc' = [pc EXCEPT ![r] = "stream_ready"]
           ELSE /\ out' = [out EXCEPT ![r] = InternalServerError]
                /\ pc' = [pc EXCEPT ![r] = "done"]
                /\ remaining' = remaining
    /\ UNCHANGED <<scenario, url, result_dict, upstream_response, worker_result,
                   close_calls, upstream_calls, relayed, loop>>

\* lines 65-70, on a worker thread: the text is read, or the read raises;
\* the response is closed either way
read_text_and_close_sync(r) ==
    /\ pc[r] = "error_body"
    /\ \/ worker_result' = [worker_result EXCEPT ![r] =
              [kind |-> "text", text |-> decoded(upstream_response[r][1]),
               data |-> None]]
       \/ /\ ReadFailures(scenario)
          /\ worker_result' = [worker_result EXCEPT ![r] =
              [kind |-> "read_error", text |-> <<>>, data |-> None]]
    /\ close_calls' = [close_calls EXCEPT ![r] = @ + 1]
    /\ pc' = [pc EXCEPT ![r] = "error_read"]
    /\ UNCHANGED <<scenario, url, result_dict, upstream_response, out,
                   upstream_calls, relayed, remaining, loop>>

\* lines 86-98
RespondUpstreamError(r) ==
    /\ pc[r] = "error_read"
    /\ loop = 0
    /\ out' = [out EXCEPT ![r] =
                  error_branch_response(worker_result[r],
                                        upstream_response[r][1].status_code)]
    /\ pc' = [pc EXCEPT ![r] = "done"]
    /\ UNCHANGED <<scenario, url, result_dict, upstream_response, worker_result,
                   close_calls, upstream_calls, relayed, remaining, loop>>

\* lines 58-63, on a worker thread: resp.json() reads the body and parses
\* it; the response is closed whether it returns or raises
parse_json_and_close_sync(r) ==
    /\ pc[r] = "json_body"
    /\ \/ LET text == decoded(upstream_response[r][1])
          IN  worker_result' = [worker_result EXCEPT ![r] =
                  IF json_loads(text).ok
                  THEN [kind |-> "data", text |-> text, data |-> json_loads(text).val]
                  ELSE [kind |-> "decode_error", text |-> text, data |-> None]]
       \/ /\ ReadFailures(scenario)
          /\ worker_result' = [worker_result EXCEPT ![r] =
              [kind |-> "read_error", text |-> <<>>, data |-> None]]
    /\ close_calls' = [close_calls EXCEPT ![r] = @ + 1]
    /\ pc' = [pc EXCEPT ![r] = "json_read"]
    /\ UNCHANGED <<scenario, url, result_dict, upstream_response, out,
                   upstream_calls, relayed, remaining, loop>>

\* lines 101-109
RespondJson(r) ==
    /\ pc[r] = "json_read"
    /\ loop = 0
    /\ out' = [out EXCEPT ![r] =
                  json_branch_response(worker_result[r],
                                       upstream_response[r][1].status_code)]
    /\ pc' = [pc EXCEPT ![r] = "done"]
    /\ UNCHANGED <<scenario, url, result_dict, upstream_response, worker_result,
                   close_calls, upstream_calls, relayed, remaining, loop>>

\* line 140: the async generator asks iter_content for the next chunk.  The
\* generator is a coroutine of the event loop and iter_content is a
\* synchronous read, so the event-loop thread blocks in it
NextChunk(r) ==
    /\ pc[r] \in {"stream_ready", "yielded"}
    /\ loop = 0
    /\ loop' = r
    /\ pc' = [pc EXCEPT ![r] = "chunk_wait"]
    /\ UNCHANGED <<scenario, url, result_dict, upstream_response, worker_result,
                   out, close_calls, upstream_calls, relayed, remaining>>

\* lines 140-143: the read returns a chunk, which is yielded to the caller;
\* or the body is exhausted; or the read raises.  The last two leave the
\* try block through finally
ChunkRead(r) ==
    /\ pc[r] = "chunk_wait"
    /\ loop' = 0
    /\ \/ /\ remaining[r] # <<>>
          /\ LET n == Min(ChunkSize, Len(remaining[r]))
             IN  /\ relayed' = [relayed EXCEPT ![r] = @ \o SubSeq(remaining[r], 1, n)]
                 /\ remaining' = [remaining EXCEPT ![r] = From(@, n + 1)]
          /\ pc' = [pc EXCEPT ![r] = "yielded"]
          /\ out' = out
       \/ /\ remaining[r] = <<>>
          /\ pc' = [pc EXCEPT ![r] = "closing"]
          /\ out' = [out EXCEPT ![r].end = "stream_complete"]
          /\ UNCHANGED <<relayed, remaining>>
       \/ /\ ReadFailures(scenario)
          /\ pc' = [pc EXCEPT ![r] = "closing"]
          /\ out' = [out EXCEPT ![r].end = "stream_aborted"]
          /\ UNCHANGED <<relayed, remaining>>
    /\ UNCHANGED <<scenario, url, result_dict, upstream_response, worker_result,
                   close_calls, upstream_calls>>

\* line 143: resp.close on a worker thread
CloseStream(r) ==
    /\ pc[r] = "closing"
    /\ close_calls' = [close_calls EXCEPT ![r] = @ + 1]
    /\ pc' = [pc EXCEPT ![r] = "done"]
    /\ UNCHANGED <<scenario, url, result_dict, upstream_response, worker_result,
                   out, upstream_calls, relayed, remaining, loop>>

\* the client goes away while the StreamingResponse is being sent.  A
\* generator suspended at its yield is closed, which runs its finally; one
\* that was never started has not entered its try block, and is dropped
ClientDisconnect(r) ==
    /\ Disconnects(scenario)
    /\ loop = 0
    /\ \/ /\ pc[r] = "yielded"
          /\ pc' = [pc EXCEPT ![r] = "closing"]
       \/ /\ pc[r] = "stream_ready"
          /\ pc' = [pc EXCEPT ![r] = "done"]
    /\ out' = [out EXCEPT ![r].end = "client_gone"]
    /\ UNCHANGED <<scenario, url, result_dict, upstream_response, worker_result,
                   close_calls, upstream_calls, relayed, remaining, loop>>

Next ==
    \/ \E r \in DOMAIN pc : QueryValidation(r)
    \/ \E r \in DOMAIN pc : download_content_via_proxy(r)
    \/ \E r \in DOMAIN pc : fetch_from_tele_social_sync(r)
    \/ \E r \in DOMAIN pc : get_content_from_tele_social(r)
    \/ \E r \in DOMAIN pc : Classify(r)
    \/ \E r \in DOMAIN pc : read_text_and_close_sync(r)
    \/ \E r \in DOMAIN pc : RespondUpstreamError(r)
    \/ \E r \in DOMAIN pc : parse_json_and_close_sync(r)
    \/ \E r \in DOMAIN pc : RespondJson(r)
    \/ \E r \in DOMAIN pc : NextChunk(r)
    \/ \E r \in DOMAIN pc : ChunkRead(r)
    \/ \E r \in DOMAIN pc : CloseStream(r)
    \/ \E r \in DOMAIN pc : ClientDisconnect(r)

Spec == Init /\ [][Next]_vars

----------------------------------------------------------------------------
(* Vocabulary of the properties *)

Done(r) == pc[r] = "done"

HasUpstream(r) == upstream_response[r] # None

Resp(r) == upstream_response[r][1]

\* the Content-Type header contains application/json, whatever its case
DeclaresJson(resp) ==
    /\ resp.content_type # None
    /\ contains_application_json(lower_header(resp.content_type[1]))

\* the value of field f of the JSON object v
FieldValue(v, f) == v[2][CHOOSE i \in 1..Len(v[2]) : v[2][i][1] = f][2]

\* the outward body is JSON and parses to what the upstream body parses to
PassedThrough(r) ==
    /\ out[r].kind = "json"
    /\ json_loads(out[r].body).ok
    /\ json_loads(out[r].body) = json_loads(decoded(Resp(r)))

\* the outward body is JSON with a `detail` or an `error` field
DescribesFailure(r) ==
    /\ out[r].kind = "json"
    /\ HasField(out[r].content, "detail") \/ HasField(out[r].content, "error")

TransportFailed(r) ==
    result_dict[r] # None /\ result_dict[r][1].type = "exception"

MissingUrl(r) == url[r] = None \/ url[r] = Some(<<>>)

\* the steps of request r
Step(r) ==
    \/ QueryValidation(r) \/ download_content_via_proxy(r)
    \/ fetch_from_tele_social_sync(r) \/ get_content_from_tele_social(r)
    \/ Classify(r) \/ read_text_and_close_sync(r) \/ RespondUpstreamError(r)
    \/ parse_json_and_close_sync(r) \/ RespondJson(r) \/ NextChunk(r)
    \/ ChunkRead(r) \/ CloseStream(r) \/ ClientDisconnect(r)

\* request r waits for the upstream: for the response, for a body, or for
\* the next chunk
WaitingOnUpstream(r) ==
    pc[r] \in {"fetching", "error_body", "json_body", "chunk_wait"}

----------------------------------------------------------------------------
(* C1 *)

\* C1: a finished request that obtained an upstream response has called
\* close() on it exactly once, and no request ever calls it twice.
C1_ClosedExactlyOnce ==
    \A r \in DOMAIN pc :
        /\ close_calls[r] <= 1
        /\ Done(r) /\ HasUpstream(r) => close_calls[r] = 1

----------------------------------------------------------------------------
(* C2 *)

\* C2: a request whose `url` is absent or empty is answered 400, and no
\* request to the upstream is issued for it.
C2_MissingUrlIs400 ==
    \A r \in DOMAIN pc :
        MissingUrl(r) =>
            /\ upstream_calls[r] = 0
            /\ Done(r) => out[r].status = 400

----------------------------------------------------------------------------
(* C3 *)

TimeoutKinds == {"Timeout", "ConnectTimeout", "ReadTimeout"}
UnreachableKinds == {"ConnectionError"}

\* C3: after a transport failure the status is 504 for a timeout, 503 for a
\* connection failure and 500 for anything else; the detail names the
\* target URL, and no upstream response is classified, read or streamed.
C3_TransportFailureStatus ==
    \A r \in DOMAIN pc :
        Done(r) /\ TransportFailed(r) =>
            LET e == result_dict[r][1].raised
            IN  /\ e \in TimeoutKinds => out[r].status = 504
                /\ e \in UnreachableKinds => out[r].status = 503
                /\ e \notin TimeoutKinds \cup UnreachableKinds => out[r].status = 500
                /\ out[r].kind = "json"
                /\ HasField(out[r].content, "detail")
                /\ FieldValue(out[r].content, "detail")[3] = url[r][1]
                /\ ~HasUpstream(r)
                /\ close_calls[r] = 0
                /\ relayed[r] = <<>>

\* a connect timeout, which is both a Timeout and a ConnectionError, was
\* answered 504
C3_Witness ==
    \E r \in DOMAIN pc :
        /\ Done(r) /\ TransportFailed(r)
        /\ result_dict[r][1].raised = "ConnectTimeout"
        /\ out[r].status = 504

----------------------------------------------------------------------------
(* C4 *)

\* C4 as claimed: for an upstream status >= 400 the outward response is
\* JSON with the upstream status, the parsed body if the body parses and
\* the wrapper object otherwise; only a failed read gives 502.
C4_Original ==
    \A r \in DOMAIN pc :
        Done(r) /\ HasUpstream(r) /\ Resp(r).status_code >= 400 =>
            /\ out[r].kind = "json"
            /\ relayed[r] = <<>>
            /\ IF worker_result[r].kind = "read_error"
               THEN out[r].status = 502
               ELSE /\ out[r].status = Resp(r).status_code
                    /\ IF json_loads(decoded(Resp(r))).ok
                       THEN PassedThrough(r)
                       ELSE /\ HasField(out[r].content, "error")
                            /\ HasField(out[r].content, "details")
                            /\ HasField(out[r].content, "upstream_status_code")

\* C4, amended: for an upstream status >= 400 the response is never
\* streamed; a body that parses to a value JSONResponse can render is
\* passed through with the upstream status; a body that does not parse
\* gives the wrapper object with the upstream status; a failed read, or a
\* parsed value that cannot be rendered (NaN), gives 502 with a detail.
C4_UpstreamErrorResponse ==
    \A r \in DOMAIN pc :
        Done(r) /\ HasUpstream(r) /\ Resp(r).status_code >= 400 =>
            LET text == decoded(Resp(r))
                parsed == json_loads(text)
            IN  /\ out[r].kind = "json"
                /\ relayed[r] = <<>>
                /\ IF \/ worker_result[r].kind = "read_error"
                      \/ parsed.ok /\ has_nan(parsed.val)
                   THEN /\ out[r].status = 502
                        /\ HasField(out[r].content, "detail")
                   ELSE /\ out[r].status = Resp(r).status_code
                        /\ IF parsed.ok
                           THEN PassedThrough(r)
                           ELSE /\ HasField(out[r].content, "error")
                                /\ FieldValue(out[r].content, "error")[2]
                                     = "Upstream API error"
                                /\ HasField(out[r].content, "details")
                                /\ FieldValue(out[r].content, "details")[3] = text
                                /\ HasField(out[r].content, "upstream_status_code")
                                /\ FieldValue(out[r].content, "upstream_status_code")
                                     = <<"num", Resp(r).status_code>>

\* an upstream error whose body is not JSON was answered with the wrapper
C4_Witness ==
    \E r \in DOMAIN pc :
        /\ Done(r) /\ HasUpstream(r) /\ Resp(r).status_code = 404
        /\ worker_result[r].kind = "text"
        /\ ~json_loads(decoded(Resp(r))).ok
        /\ decoded(Resp(r)) # <<>>
        /\ out[r].status = 404
        /\ HasField(out[r].content, "error")

----------------------------------------------------------------------------
(* C5 *)

\* C5 as claimed: for an upstream status < 400 that declares JSON, a valid
\* JSON body is passed through with the upstream status and any other body
\* gives 502; nothing is streamed.
C5_Original ==
    \A r \in DOMAIN pc :
        Done(r) /\ HasUpstream(r) /\ Resp(r).status_code < 400
                /\ DeclaresJson(Resp(r)) =>
            LET parsed == json_loads(decoded(Resp(r)))
            IN  /\ out[r].kind = "json"
                /\ relayed[r] = <<>>
                /\ IF parsed.ok /\ ~has_nan(parsed.val)
                   THEN out[r].status = Resp(r).status_code /\ PassedThrough(r)
                   ELSE out[r].status = 502

\* C5, amended: for an upstream status < 400 that declares JSON, nothing is
\* streamed; a body that is read, parses and can be rendered is passed
\* through with the upstream status; a body that is read and does not parse
\* gives 502; a failed read, or a parsed value that cannot be rendered
\* (NaN), gives 500.
C5_DeclaredJsonResponse ==
    \A r \in DOMAIN pc :
        Done(r) /\ HasUpstream(r) /\ Resp(r).status_code < 400
                /\ DeclaresJson(Resp(r)) =>
            LET parsed == json_loads(decoded(Resp(r)))
            IN  /\ out[r].kind = "json"
                /\ relayed[r] = <<>>
                /\ CASE worker_result[r].kind = "read_error" ->
                            out[r].status = 500 /\ HasField(out[r].content, "detail")
                     [] worker_result[r].kind # "read_error" /\ ~parsed.ok ->
                            out[r].status = 502 /\ HasField(out[r].content, "detail")
                     [] worker_result[r].kind # "read_error" /\ parsed.ok
                            /\ has_nan(parsed.val) ->
                            out[r].status = 500 /\ HasField(out[r].content, "detail")
                     [] OTHER ->
                            out[r].status = Resp(r).status_code /\ PassedThrough(r)

\* a body that declared JSON in mixed case and did not parse was answered 502
C5_Witness ==
    \E r \in DOMAIN pc :
        /\ Done(r) /\ HasUpstream(r) /\ Resp(r).status_code = 200
        /\ Resp(r).content_type = Some("Application/JSON; charset=utf-8")
        /\ worker_result[r].kind = "decode_error"
        /\ out[r].status = 502

----------------------------------------------------------------------------
(* C6 *)

\* C6: a download that was streamed to its end relayed exactly the upstream
\* body (as sent, or as the HTTP client decodes it), and when the upstream
\* sent Content-Length that header is copied and equals the number of bytes
\* relayed.
C6_RelayedExactly ==
    \A r \in DOMAIN pc :
        Done(r) /\ HasUpstream(r) /\ Resp(r).status_code < 400
                /\ ~DeclaresJson(Resp(r)) /\ out[r].end = "stream_complete" =>
            /\ relayed[r] \in {Resp(r).wire, decoded(Resp(r))}
            /\ Resp(r).content_length # None =>
                  /\ out[r].headers[1].content_length = Resp(r).content_length
                  /\ Len(relayed[r]) = Resp(r).content_length[1]

----------------------------------------------------------------------------
(* C7 *)

\* C7: while one request waits for the upstream, every other unfinished
\* request can take its next step.
C7_OthersProgress ==
    \A a, b \in DOMAIN pc :
        a # b /\ WaitingOnUpstream(a) /\ ~Done(b) => ENABLED Step(b)

----------------------------------------------------------------------------
(* C8 *)

\* an upstream read failed while a stream was relayed
StreamFailed(r) == out[r].end = "stream_aborted"

ErrorPassedThrough(r) ==
    /\ HasUpstream(r) /\ Resp(r).status_code >= 400
    /\ worker_result[r].kind = "text"
    /\ json_loads(worker_result[r].text).ok
    /\ ~has_nan(json_loads(worker_result[r].text).val)

----------------------------------------------------------------------------
(* C9 *)

\* the request ended in an error
ErrorOutcome(r) ==
    \/ out[r].kind \in {"json", "plain"} /\ out[r].status >= 400
    \/ StreamFailed(r)

\* C9 as claimed: a request that ends in an error has relayed no body byte.
C9_Original ==
    \A r \in DOMAIN pc : ErrorOutcome(r) => relayed[r] = <<>>

\* C9, amended: body bytes are relayed only for a response classified as a
\* stream (status < 400, not declared JSON) whose StreamingResponse was
\* returned, and a request answered with an error response has relayed
\* none; once bytes are relayed the one failure left is an upstream read
\* error, which aborts the stream.
C9_ClassifiedBeforeRelay ==
    \A r \in DOMAIN pc :
        /\ relayed[r] # <<>> =>
              /\ HasUpstream(r)
              /\ Resp(r).status_code < 400
              /\ ~DeclaresJson(Resp(r))
              /\ out[r].kind = "stream"
              /\ out[r].status = Resp(r).status_code
        /\ out[r].kind \in {"json", "plain"} => relayed[r] = <<>>

\* a stream was aborted by an upstream read error after bytes were relayed
C9_Witness ==
    \E r \in DOMAIN pc :
        Done(r) /\ StreamFailed(r) /\ relayed[r] # <<>> /\ out[r].kind = "stream"

----------------------------------------------------------------------------
(* C10 *)

\* C10: a download whose upstream response has no Content-Disposition is
\* answered as a stream whose synthesized filename is not empty and holds
\* only characters of [A-Za-z0-9._-]; it is downloaded_file when the URL
\* has no last path segment or cannot be parsed.
C10_SafeFilename ==
    \A r \in DOMAIN pc :
        /\ HasUpstream(r) /\ pc[r] # "classify"
        /\ Resp(r).status_code < 400 /\ ~DeclaresJson(Resp(r))
        /\ Resp(r).content_disposition = None
        => /\ out[r].kind = "stream"
           /\ LET cd == out[r].headers[1].content_disposition
              IN  /\ cd.source = "synthesized"
                  /\ cd.filename # <<>>
                  /\ \A i \in 1..Len(cd.filename) : cd.filename[i] \in SafeAscii
                  /\ urlparse_raises(url[r][1]) => cd.filename = downloaded_file
                  /\ ~urlparse_raises(url[r][1])
                        /\ basename(urlparse_path(url[r][1])) = <<>>
                        => cd.filename = downloaded_file

====
